---- MODULE Spec2Model ----
(***************************************************************************)
(* Model of the deposit relay of the bridge                                *)
(* (bridge/src/bridge/deposit_relay.rs).                                   *)
(*                                                                         *)
(* The relay is a futures-0.1 Stream.  One call of DepositRelay::poll is   *)
(* one action of the model: it runs the `loop` of poll from the state the  *)
(* previous call left behind until the call returns.  Between two calls    *)
(* the environment acts: the account tracker rewrites the shared balance   *)
(* and nonce snapshots, and the destination RPC endpoint answers (or times *)
(* out) the calls that are in flight.                                      *)
(***************************************************************************)
EXTENDS Integers, Sequences, FiniteSets, TLC

(***************************************************************************)
(* Bounds of the model.                                                    *)
(***************************************************************************)
MaxBalance == 4
MaxNonce == 1
MaxEvents == 2
MaxBlock == 1
MaxBatches == 2

(***************************************************************************)
(* Configuration values read at line 97 and lines 108-109                  *)
(* (app.config.txs.deposit_relay.gas and .gas_price).                      *)
(***************************************************************************)
Gas == 2
GasPrice == 1

VARIABLES
    state,            \* tag of DepositRelayState: "Wait", "RelayDeposits", "Yield"
    future,           \* RelayDeposits.future: the ElemState of each element of the JoinAll
    block,            \* RelayDeposits.block (0 in the other variants)
    yieldv,           \* the Option<u64> held by Yield
    foreign_balance,  \* Arc<RwLock<Option<U256>>> shared balance snapshot
    foreign_nonce,    \* Arc<RwLock<Option<U256>>> shared nonce snapshot
    logs,             \* the log stream: upper block of the last batch, batches delivered
    calls,            \* eth_sendRawTransaction calls issued for the last pulled batch
    batch,            \* history: the batch pulled last and the signer calls made for it
    result,           \* history: what the last call of poll returned
    emitted,          \* history: how many checkpoints were returned, and the last one
    failed,           \* history: a call of poll has returned an error of the relay
                      \* (InsufficientFunds, Decode, Signer or Submission)
    tick,             \* history: flips at every call of poll
    peer,             \* a second relay instance created with the same snapshots
    plog,             \* the Log handed to deposit_relay_payload on its own
    pout              \* what deposit_relay_payload gave for plog

relayVars == <<state, future, block, yieldv, foreign_balance, foreign_nonce, logs,
               calls, batch, result, emitted, failed, tick>>
aside == <<peer, plog, pout>>
vars == <<relayVars, aside>>

(***************************************************************************)
(* Option<T>: None, Some(v), is_none, unwrap.                              *)
(***************************************************************************)
None == [some |-> FALSE, v |-> 0]
Some(x) == [some |-> TRUE, v |-> x]
IsNone(o) == ~o.some
Unwrap(o) == o.v

(***************************************************************************)
(* The logs of a batch.  A log is one of                                   *)
(*   "deposit"   a mined Deposit event: parse_log succeeds, the hash is set*)
(*   "malformed" parse_log fails                                           *)
(*   "unmined"   parse_log succeeds, transaction_hash is None              *)
(***************************************************************************)
LogKinds == {"deposit", "malformed", "unmined"}
SeqsUpTo(S, n) == UNION {[1..k -> S] : k \in 0..n}
Batches == SeqsUpTo(LogKinds, MaxEvents)

(***************************************************************************)
(* deposit_relay_payload (lines 23-32): "Ok", "Err" (parse_log failed and  *)
(* `?` returned it) or "Panic" (expect on a missing transaction hash).     *)
(***************************************************************************)
deposit_relay_payload(log) ==
    CASE log = "malformed" -> "Err"
      [] log = "unmined" -> "Panic"
      [] OTHER -> "Ok"

(***************************************************************************)
(* Lines 101-104: map deposit_relay_payload over the logs and collect into *)
(* Result<Vec<_>>: the logs are visited in order and the first one that    *)
(* does not give Ok decides the outcome.                                   *)
(***************************************************************************)
CollectPayloadsFirstOnly(ls, idx) ==
    IF Len(ls) = 0 THEN "Ok" ELSE deposit_relay_payload(ls[1])

RECURSIVE CollectPayloads(_, _)
CollectPayloads(ls, idx) ==
    IF idx > Len(ls) THEN "Ok"
    ELSE IF deposit_relay_payload(ls[idx]) = "Ok" THEN CollectPayloads(ls, idx + 1)
    ELSE deposit_relay_payload(ls[idx])

(***************************************************************************)
(* Line 97: balance_required = gas * gas_price * logs.len(), in U256       *)
(* (three factors below 2^64 each: the product cannot overflow).           *)
(***************************************************************************)
BalanceRequiredOffByOne(n) == Gas * GasPrice * (n + 1)

BalanceRequired(n) == Gas * GasPrice * n

(***************************************************************************)
(* Line 98: the gate fails when balance_required > balance.                *)
(***************************************************************************)
InsufficientFundsOrEqual(required, balance) == required >= balance

InsufficientFunds(required, balance) == required > balance

(***************************************************************************)
(* Lines 86 and 91: both snapshots must be populated.                      *)
(***************************************************************************)
SnapshotsKnownBalanceOnly(bal, non) == ~IsNone(bal)

SnapshotsKnown(bal, non) == ~IsNone(bal) /\ ~IsNone(non)

(***************************************************************************)
(* Line 112: the nonce of the transaction built for the i-th payload of a  *)
(* batch (i from 1) is foreign_nonce.unwrap(): the snapshot itself, for    *)
(* every payload.                                                          *)
(***************************************************************************)
TxNonce(start, i) == start

(***************************************************************************)
(* Line 130: the block kept in RelayDeposits is item.to.                   *)
(***************************************************************************)
RelayBlockBelow(to) == IF to > 0 THEN to - 1 ELSE 0

RelayBlock(to) == to

(***************************************************************************)
(* Lines 105-125: the calls issued for a batch of n payloads when the      *)
(* signer fails on the k-th one (k = 0: it never fails).  The adaptors     *)
(* map / map_results are lazy and fold_results pulls one element at a      *)
(* time, so payload i is signed and handed to send_raw_transaction before  *)
(* payload i+1 is signed; fold_results stops at the first Err.  A call     *)
(* records the position `ev` of the log whose payload it carries.          *)
(***************************************************************************)
SentBeforeDropsLast(n, k) == IF k = 0 THEN (IF n > 0 THEN n - 1 ELSE 0) ELSE k - 1

SentBefore(n, k) == IF k = 0 THEN n ELSE k - 1
SignerCalls(n, k) == IF k = 0 THEN n ELSE k
IssuedCalls(n, k, start) ==
    [i \in 1..SentBefore(n, k) |->
        [ev |-> i, nonce |-> TxNonce(start, i), st |-> "InFlight"]]

(***************************************************************************)
(* JoinAll::poll of futures 0.1, the future polled at line 134.  Elements  *)
(* are polled in order; a ready one becomes Done, a pending one clears     *)
(* all_done, an error drops every element and is returned.  When all are   *)
(* done the elements are taken out and the results returned.               *)
(* An element is "Pending" or "Done"; cs[idx].st is what its call answers. *)
(***************************************************************************)
RECURSIVE JoinAllLoop(_, _, _, _)
JoinAllLoop(elems, cs, idx, all_done) ==
    IF idx > Len(elems)
    THEN IF all_done THEN [res |-> "Ready", elems |-> <<>>]
                     ELSE [res |-> "NotReady", elems |-> elems]
    ELSE IF elems[idx] = "Done" THEN JoinAllLoop(elems, cs, idx + 1, all_done)
    ELSE CASE cs[idx].st = "Ok" ->
                JoinAllLoop([elems EXCEPT ![idx] = "Done"], cs, idx + 1, all_done)
           [] cs[idx].st = "Err" -> [res |-> "Err", elems |-> <<>>]
           [] OTHER -> JoinAllLoop(elems, cs, idx + 1, FALSE)

JoinAllPoll(elems, cs) == JoinAllLoop(elems, cs, 1, TRUE)

(***************************************************************************)
(* Line 134: try_ready!(future.poll()): NotReady and Err return from poll, *)
(* Ready lets the arm go on to Yield(Some(block)).                         *)
(***************************************************************************)
TryReadyNeedsSnapshots(fut, cs) ==
    IF IsNone(foreign_balance) \/ IsNone(foreign_nonce)
    THEN [res |-> "NotReady", elems |-> fut]
    ELSE JoinAllPoll(fut, cs)

TryReadyFirstDone(fut, cs) ==
    LET r == JoinAllPoll(fut, cs) IN
    IF r.res = "NotReady" /\ \E i \in 1..Len(r.elems) : r.elems[i] = "Done"
    THEN [res |-> "Ready", elems |-> <<>>]
    ELSE r

TryReady(fut, cs) == JoinAllPoll(fut, cs)

(***************************************************************************)
(* join_all (line 129): every element starts Pending.                      *)
(***************************************************************************)
JoinAll(cs) == [i \in 1..Len(cs) |-> "Pending"]

(***************************************************************************)
(* Values returned by poll.                                                *)
(***************************************************************************)
Ret(kind, val, err, pulled) == [kind |-> kind, val |-> val, err |-> err, pulled |-> pulled]
NotReady(pulled) == Ret("NotReady", 0, "", pulled)
Item(b, pulled) == Ret("Item", b, "", pulled)
Err(e, pulled) == Ret("Err", 0, e, pulled)
Panic == Ret("Panic", 0, "", TRUE)

NoBatch == [n |-> 0, to |-> 0, signed |-> 0, logs |-> <<>>]

(***************************************************************************)
(* The second instance before its first poll (state Wait, nothing sent),   *)
(* and deposit_relay_payload not called on its own.                        *)
(***************************************************************************)
PeerIdle == [state |-> "Wait", calls |-> <<>>, pulled |-> FALSE]
NoHash == [some |-> FALSE, v |-> <<>>]
NoLog == [topics |-> <<>>, data |-> <<>>, transaction_hash |-> NoHash]
NoPayload == [res |-> "None", bytes |-> <<>>]

InitRelay ==
    /\ state = "Wait"
    /\ future = <<>>
    /\ block = 0
    /\ yieldv = None
    /\ foreign_balance = None
    /\ foreign_nonce = None
    /\ logs = [last_to |-> 0, pulls |-> 0]
    /\ calls = <<>>
    /\ batch = NoBatch
    /\ result = Ret("Init", 0, "", FALSE)
    /\ emitted = [n |-> 0, last |-> 0]
    /\ failed = FALSE
    /\ tick = 0

Init ==
    /\ InitRelay
    /\ peer = PeerIdle
    /\ plog = NoLog
    /\ pout = NoPayload

(***************************************************************************)
(* The caller polls the stream unless a previous call panicked.            *)
(***************************************************************************)
CanPoll == result.kind # "Panic"

(***************************************************************************)
(* Lines 84 and 138-139: the loop is at the Wait arm when the state is     *)
(* Wait, or Yield(None), which the Yield arm turns into Wait.              *)
(***************************************************************************)
AtWaitFromWaitOnly == state = "Wait"

AtWait == state = "Wait" \/ (state = "Yield" /\ IsNone(yieldv))

(***************************************************************************)
(* The log stream (api::log_stream, outside this file).  A poll of it      *)
(* gives NotReady, an error, or the next batch {logs, to}; batches come in *)
(* non-decreasing order of `to`.                                           *)
(***************************************************************************)
LogStreamTos == logs.last_to..MaxBlock
LogStreamHasNext == logs.pulls < MaxBatches
LogStreamAdvance(to) == [last_to |-> to, pulls |-> logs.pulls + 1]

(***************************************************************************)
(* The batch a poll pulls: its size, upper block and logs, and the number  *)
(* of signer calls the poll made for it.                                   *)
(***************************************************************************)
PulledBatch(ls, to, signed) ==
    [n |-> Len(ls), to |-> to, signed |-> signed, logs |-> ls]

(***************************************************************************)
(* Line 138: block.take() gives the value out and leaves None in the       *)
(* state.                                                                  *)
(***************************************************************************)
TakeCopies(o) == [taken |-> o, left |-> o]

Take(o) == [taken |-> o, left |-> None]

(***************************************************************************)
(* Lines 133-141 and 143: the RelayDeposits arm on the future `fut` whose  *)
(* calls are `cs`, followed when the future is ready by the Yield arm,     *)
(* which takes the block out of Yield(Some(block)) and returns it.         *)
(***************************************************************************)
RelayArm(fut, cs, blk, pulled) ==
    LET r == TryReady(fut, cs)
        t == Take(Some(blk))
    IN
    /\ future' = r.elems
    /\ yieldv' = IF r.res = "Ready" THEN t.left ELSE None
    /\ CASE r.res = "Ready" ->
              /\ state' = "Yield"
              /\ block' = 0
              /\ result' = Item(Unwrap(t.taken), pulled)
              /\ emitted' = [n |-> emitted.n + 1, last |-> blk]
              /\ failed' = failed
         [] r.res = "Err" ->
              /\ state' = "RelayDeposits"
              /\ block' = blk
              /\ result' = Err("Submission", pulled)
              /\ emitted' = emitted
              /\ failed' = TRUE
         [] OTHER ->
              /\ state' = "RelayDeposits"
              /\ block' = blk
              /\ result' = NotReady(pulled)
              /\ emitted' = emitted
              /\ failed' = failed

(***************************************************************************)
(* Lines 85-94: a snapshot is unknown: NotReady.                           *)
(***************************************************************************)
PollSnapshotUnknown ==
    /\ CanPoll /\ AtWait
    /\ ~SnapshotsKnown(foreign_balance, foreign_nonce)
    /\ state' = "Wait"
    /\ result' = NotReady(FALSE)
    /\ tick' = 1 - tick
    /\ UNCHANGED aside
    /\ UNCHANGED <<future, block, yieldv, foreign_balance, foreign_nonce, logs,
                   calls, batch, emitted, failed>>

(***************************************************************************)
(* Line 95, try_stream!: the log stream is not ready.                      *)
(***************************************************************************)
PollLogsNotReady ==
    /\ CanPoll /\ AtWait
    /\ SnapshotsKnown(foreign_balance, foreign_nonce)
    /\ state' = "Wait"
    /\ result' = NotReady(FALSE)
    /\ tick' = 1 - tick
    /\ UNCHANGED aside
    /\ UNCHANGED <<future, block, yieldv, foreign_balance, foreign_nonce, logs,
                   calls, batch, emitted, failed>>

(***************************************************************************)
(* Line 95, try_stream!: the log stream fails.                             *)
(***************************************************************************)
PollLogsError ==
    /\ CanPoll /\ AtWait
    /\ SnapshotsKnown(foreign_balance, foreign_nonce)
    /\ state' = "Wait"
    /\ result' = Err("LogStream", FALSE)
    /\ tick' = 1 - tick
    /\ UNCHANGED aside
    /\ UNCHANGED <<future, block, yieldv, foreign_balance, foreign_nonce, logs,
                   calls, batch, emitted, failed>>

(***************************************************************************)
(* Lines 95-100: a batch is pulled and the gate rejects it.                *)
(***************************************************************************)
PollInsufficientFunds ==
    /\ CanPoll /\ AtWait
    /\ SnapshotsKnown(foreign_balance, foreign_nonce)
    /\ LogStreamHasNext
    /\ \E ls \in Batches, to \in LogStreamTos :
        /\ InsufficientFunds(BalanceRequired(Len(ls)), Unwrap(foreign_balance))
        /\ logs' = LogStreamAdvance(to)
        /\ batch' = PulledBatch(ls, to, 0)
    /\ calls' = <<>>
    /\ state' = "Wait"
    /\ result' = Err("InsufficientFunds", TRUE)
    /\ failed' = TRUE
    /\ tick' = 1 - tick
    /\ UNCHANGED aside
    /\ UNCHANGED <<future, block, yieldv, foreign_balance, foreign_nonce, emitted>>

(***************************************************************************)
(* Lines 101-104: the batch passes the gate and a log does not parse:      *)
(* collect gives Err and `?` returns it.                                   *)
(***************************************************************************)
PollDecodeError ==
    /\ CanPoll /\ AtWait
    /\ SnapshotsKnown(foreign_balance, foreign_nonce)
    /\ LogStreamHasNext
    /\ \E ls \in Batches, to \in LogStreamTos :
        /\ ~InsufficientFunds(BalanceRequired(Len(ls)), Unwrap(foreign_balance))
        /\ CollectPayloads(ls, 1) = "Err"
        /\ logs' = LogStreamAdvance(to)
        /\ batch' = PulledBatch(ls, to, 0)
    /\ calls' = <<>>
    /\ state' = "Wait"
    /\ result' = Err("Decode", TRUE)
    /\ failed' = TRUE
    /\ tick' = 1 - tick
    /\ UNCHANGED aside
    /\ UNCHANGED <<future, block, yieldv, foreign_balance, foreign_nonce, emitted>>

(***************************************************************************)
(* Line 29: a log that parses has no transaction hash: expect panics.      *)
(***************************************************************************)
PollPanic ==
    /\ CanPoll /\ AtWait
    /\ SnapshotsKnown(foreign_balance, foreign_nonce)
    /\ LogStreamHasNext
    /\ \E ls \in Batches, to \in LogStreamTos :
        /\ ~InsufficientFunds(BalanceRequired(Len(ls)), Unwrap(foreign_balance))
        /\ CollectPayloads(ls, 1) = "Panic"
        /\ logs' = LogStreamAdvance(to)
        /\ batch' = PulledBatch(ls, to, 0)
    /\ calls' = <<>>
    /\ state' = "Wait"
    /\ result' = Panic
    /\ tick' = 1 - tick
    /\ UNCHANGED aside
    /\ UNCHANGED <<future, block, yieldv, foreign_balance, foreign_nonce, emitted,
                   failed>>

(***************************************************************************)
(* Lines 105-125: the signer (prepare_raw_transaction) fails on the k-th   *)
(* payload: fold_results gives Err and `?` returns it.  The calls issued   *)
(* for the payloads before it were created and are dropped with the        *)
(* iterator.                                                               *)
(***************************************************************************)
PollSignerError ==
    /\ CanPoll /\ AtWait
    /\ SnapshotsKnown(foreign_balance, foreign_nonce)
    /\ LogStreamHasNext
    /\ \E ls \in Batches, to \in LogStreamTos, k \in 1..MaxEvents :
        /\ ~InsufficientFunds(BalanceRequired(Len(ls)), Unwrap(foreign_balance))
        /\ CollectPayloads(ls, 1) = "Ok"
        /\ k <= Len(ls)
        /\ logs' = LogStreamAdvance(to)
        /\ batch' = PulledBatch(ls, to, SignerCalls(Len(ls), k))
        /\ calls' = IssuedCalls(Len(ls), k, Unwrap(foreign_nonce))
    /\ state' = "Wait"
    /\ result' = Err("Signer", TRUE)
    /\ failed' = TRUE
    /\ tick' = 1 - tick
    /\ UNCHANGED aside
    /\ UNCHANGED <<future, block, yieldv, foreign_balance, foreign_nonce, emitted>>

(***************************************************************************)
(* Lines 95-131, then the RelayDeposits arm in the same call: every        *)
(* payload is built, signed and sent, the state becomes RelayDeposits and  *)
(* the loop polls the joined future at once.                               *)
(***************************************************************************)
PollRelay ==
    /\ CanPoll /\ AtWait
    /\ SnapshotsKnown(foreign_balance, foreign_nonce)
    /\ LogStreamHasNext
    /\ \E to \in LogStreamTos :
      /\ logs' = LogStreamAdvance(to)
      /\ \E ls \in Batches :
        LET cs == IssuedCalls(Len(ls), 0, Unwrap(foreign_nonce)) IN
        /\ batch' = PulledBatch(ls, to, SignerCalls(Len(ls), 0))
        /\ ~InsufficientFunds(BalanceRequired(Len(ls)), Unwrap(foreign_balance))
        /\ CollectPayloads(ls, 1) = "Ok"
        /\ calls' = cs
        /\ RelayArm(JoinAll(cs), cs, RelayBlock(to), TRUE)
    /\ tick' = 1 - tick
    /\ UNCHANGED aside
    /\ UNCHANGED <<foreign_balance, foreign_nonce>>

(***************************************************************************)
(* Lines 133-141: a call of poll that finds the state RelayDeposits.       *)
(***************************************************************************)
PollRelayingClearsNonce ==
    /\ CanPoll
    /\ state = "RelayDeposits"
    /\ RelayArm(future, calls, block, FALSE)
    /\ tick' = 1 - tick
    /\ foreign_nonce' = None
    /\ UNCHANGED aside
    /\ UNCHANGED <<foreign_balance, logs, calls, batch>>

PollRelaying ==
    /\ CanPoll
    /\ state = "RelayDeposits"
    /\ RelayArm(future, calls, block, FALSE)
    /\ tick' = 1 - tick
    /\ UNCHANGED aside
    /\ UNCHANGED <<foreign_balance, foreign_nonce, logs, calls, batch>>

Poll ==
    \/ PollSnapshotUnknown
    \/ PollLogsNotReady
    \/ PollLogsError
    \/ PollInsufficientFunds
    \/ PollDecodeError
    \/ PollPanic
    \/ PollSignerError
    \/ PollRelay
    \/ PollRelaying

(***************************************************************************)
(* The account tracker (outside this file) rewrites a snapshot: it sets a  *)
(* value or clears it.                                                     *)
(***************************************************************************)
BalanceValues == {None} \cup {Some(b) : b \in 0..MaxBalance}
NonceValues == {None} \cup {Some(x) : x \in 0..MaxNonce}

TrackerSetBalance ==
    /\ UNCHANGED aside
    /\ \E b \in BalanceValues : foreign_balance' = b
    /\ UNCHANGED <<state, future, block, yieldv, foreign_nonce, logs, calls, batch,
                   result, emitted, failed, tick>>

TrackerSetNonce ==
    /\ UNCHANGED aside
    /\ \E x \in NonceValues : foreign_nonce' = x
    /\ UNCHANGED <<state, future, block, yieldv, foreign_balance, logs, calls, batch,
                   result, emitted, failed, tick>>

(***************************************************************************)
(* The destination endpoint answers a call in flight, or its Timeout       *)
(* (lines 118-120) fires.  Only the answers to calls whose future the      *)
(* relay still holds are modelled: the answer to a dropped future is       *)
(* never looked at.                                                        *)
(***************************************************************************)
RpcAnswer ==
    /\ UNCHANGED aside
    /\ \E i \in 1..Len(future), st \in {"Ok", "Err"} :
        /\ calls[i].st = "InFlight"
        /\ calls' = [calls EXCEPT ![i].st = st]
    /\ UNCHANGED <<state, future, block, yieldv, foreign_balance, foreign_nonce, logs,
                   batch, result, emitted, failed, tick>>

Next ==
    \/ Poll
    \/ TrackerSetBalance
    \/ TrackerSetNonce
    \/ RpcAnswer

Spec == Init /\ [][Next]_vars

(***************************************************************************)
(* Steps of a behaviour, as the properties below see them.                 *)
(***************************************************************************)
Polled == tick' # tick
Pulled == logs'.pulls # logs.pulls
SnapshotUnset == IsNone(foreign_balance) \/ IsNone(foreign_nonce)
SomeCallFailed == \E i \in 1..Len(calls) : calls[i].st = "Err"
AllCallsAccepted == \A i \in 1..Len(calls) : calls[i].st = "Ok"
JoinPending ==
    /\ ~SomeCallFailed
    /\ \E i \in 1..Len(future) : future[i] = "Pending" /\ calls[i].st = "InFlight"

(***************************************************************************)
(* C1.  Nonce monotonicity: when a poll takes a batch of n >= 1 events     *)
(* from Wait to RelayDeposits with the nonce snapshot s, the n             *)
(* transactions it sent carry the nonces s, s+1, ..., s+n-1 in order.      *)
(***************************************************************************)
C1_NonceMonotonicity ==
    [][(Pulled /\ state' = "RelayDeposits") =>
          /\ Len(calls') = batch'.n
          /\ \A i \in 1..Len(calls') :
                calls'[i].nonce = Unwrap(foreign_nonce) + (i - 1)]_vars

(***************************************************************************)
(* C2.  A poll returns a checkpoint only if it is the upper block of the   *)
(* batch pulled last and every submission of that batch was accepted.      *)
(***************************************************************************)
C2_CheckpointAfterAllAccepted ==
    result.kind = "Item" =>
        /\ result.val = batch.to
        /\ Len(calls) = batch.n
        /\ AllCallsAccepted

(***************************************************************************)
(* C3.  All-or-nothing submission: a poll that finds the state             *)
(* RelayDeposits with a failed submission returns an error and yields no   *)
(* checkpoint, however often the stream is polled.                         *)
(***************************************************************************)
C3_AllOrNothing ==
    [][(Polled /\ state = "RelayDeposits" /\ SomeCallFailed) =>
          /\ result'.kind = "Err"
          /\ emitted' = emitted]_vars

(***************************************************************************)
(* C4.  Errors terminate the stream: once a poll has returned an error     *)
(* (insufficient funds, decode, signer or submission), no later poll pulls *)
(* a batch from the log stream, sends a transaction or returns a           *)
(* checkpoint.                                                             *)
(***************************************************************************)
C4_ErrorTerminatesStream ==
    [][failed =>
          (/\ logs' = logs
           /\ batch' = batch
           /\ Len(calls') = Len(calls)
           /\ emitted' = emitted
           /\ (Polled => result'.kind # "Item"))]_vars

(***************************************************************************)
(* C5.  Checkpoint monotonicity: a checkpoint a poll returns is the upper   *)
(* block of the batch that produced it and is not below the checkpoint     *)
(* returned before it.                                                     *)
(***************************************************************************)
C5_CheckpointMonotonic ==
    [][(Polled /\ result'.kind = "Item") =>
          (/\ result'.val = batch'.to
           /\ emitted' = [n |-> emitted.n + 1, last |-> result'.val]
           /\ (emitted.n > 0 => emitted.last <= result'.val))]_vars

C5_Witness ==
    /\ emitted = [n |-> 2, last |-> MaxBlock]
    /\ result = Item(MaxBlock, FALSE)
    /\ batch.n = 2

(***************************************************************************)
(* C6.  Balance gate: a poll that pulls a batch of n events fails with     *)
(* InsufficientFunds exactly when gas * gas_price * n exceeds the balance  *)
(* snapshot; when it does, nothing was signed or sent and the state is not *)
(* RelayDeposits.                                                          *)
(***************************************************************************)
C6_BalanceGate ==
    [][Pulled =>
          /\ (result'.err = "InsufficientFunds")
                <=> (Gas * GasPrice * batch'.n > Unwrap(foreign_balance))
          /\ result'.err = "InsufficientFunds" =>
                /\ result'.kind = "Err"
                /\ batch'.signed = 0
                /\ calls' = <<>>
                /\ state' # "RelayDeposits"]_vars

C6_Witness ==
    /\ result.err = "InsufficientFunds"
    /\ batch.n = 2
    /\ foreign_balance = Some(Gas * GasPrice * 2 - 1)
    /\ state = "Wait"

(***************************************************************************)
(* C7.  No overlap of batches: a step taken in state RelayDeposits pulls   *)
(* nothing from the log stream and builds no transaction, and a poll that  *)
(* finds the joined future pending returns NotReady and leaves the state   *)
(* RelayDeposits with the same block.                                      *)
(***************************************************************************)
C7_OneBatchAtATime ==
    [][state = "RelayDeposits" =>
          /\ logs' = logs
          /\ batch' = batch
          /\ Len(calls') = Len(calls)
          /\ (Polled /\ JoinPending) =>
                /\ result'.kind = "NotReady"
                /\ state' = "RelayDeposits"
                /\ block' = block]_vars

C7_Witness ==
    /\ state = "RelayDeposits"
    /\ result = NotReady(FALSE)
    /\ Len(future) = 2
    /\ future[1] = "Done"
    /\ future[2] = "Pending"
    /\ calls[2].st = "InFlight"

(***************************************************************************)
(* C8.  Atomic start of a batch: after the poll that pulled a batch,       *)
(* either every event was signed and sent and the state is RelayDeposits,  *)
(* or no transaction of the batch was sent.                                *)
(***************************************************************************)
C8_AtomicBatchStart ==
    result.pulled =>
        \/ /\ state = "RelayDeposits"
           /\ batch.signed = batch.n
           /\ Len(calls) = batch.n
        \/ Len(calls) = 0

(***************************************************************************)
(* C9.  Empty-batch no-op: the poll that pulls a batch with no events      *)
(* returns the batch's upper block, calls the signer and the endpoint not  *)
(* at all, and does not fail with InsufficientFunds whatever the balance.  *)
(***************************************************************************)
C9_EmptyBatch ==
    (result.pulled /\ batch.n = 0) =>
        /\ result = Item(batch.to, TRUE)
        /\ batch.signed = 0
        /\ calls = <<>>
        /\ state = "Yield"

C9_Witness ==
    /\ result.pulled
    /\ batch.n = 0
    /\ result.kind = "Item"
    /\ foreign_balance = Some(0)

(***************************************************************************)
(* C10, as stated.  Not-ready stability in every state: a poll made while  *)
(* a snapshot is unset returns NotReady, pulls no batch, returns no        *)
(* checkpoint and leaves the relay state as it was (Yield(None) and Wait   *)
(* being the same idle state).                                             *)
(***************************************************************************)
C10_NotReadyAnyState ==
    [][(Polled /\ SnapshotUnset) =>
          /\ result'.kind = "NotReady"
          /\ logs' = logs
          /\ emitted' = emitted
          /\ (state' = state \/ (state = "Yield" /\ state' = "Wait"))]_vars

(***************************************************************************)
(* C10, amended.  Not-ready stability in Wait: a poll that reaches the     *)
(* Wait arm (from Wait, or from Yield(None)) while a snapshot is unset     *)
(* returns NotReady and changes nothing: the state is Wait, no batch is    *)
(* pulled, nothing is sent and no checkpoint is returned.                  *)
(***************************************************************************)
C10_NotReadyInWait ==
    [][(Polled /\ SnapshotUnset /\ state # "RelayDeposits") =>
          /\ result' = NotReady(FALSE)
          /\ state' = "Wait"
          /\ UNCHANGED <<future, block, yieldv, foreign_balance, foreign_nonce,
                         logs, calls, batch, emitted, failed>>]_vars

C10_Witness ==
    /\ state = "Wait"
    /\ result = NotReady(FALSE)
    /\ ~IsNone(foreign_balance)
    /\ IsNone(foreign_nonce)
    /\ logs.pulls = 1
    /\ tick = 0

(***************************************************************************)
(* deposit_relay_payload on bytes.  A Log is its topics (32-byte words),   *)
(* its data and its optional transaction hash; bytes are 0..255.           *)
(*                                                                         *)
(* The values of the test (lines 161-169): the topic of the Deposit event, *)
(* the selector of the foreign deposit function, and the log, hash and     *)
(* payload of the fixture.                                                 *)
(***************************************************************************)
DepositTopic ==
    <<225, 255, 252, 196, 146, 61, 4, 181, 89, 244, 210, 154, 139, 252, 108, 218,
      4, 235, 91, 13, 60, 70, 7, 81, 194, 64, 44, 92, 92, 201, 16, 156>>
DepositSelector == <<38, 179, 41, 63>>
FixtureRecipient ==
    <<175, 243, 69, 79, 206, 94, 219, 200, 204, 168, 105, 124, 21, 51, 22, 119,
      230, 235, 204, 204>>
FixtureValue ==
    <<0, 0, 0, 0, 0, 0, 0, 0, 0, 0, 0, 0, 0, 0, 0, 0,
      0, 0, 0, 0, 0, 0, 0, 0, 0, 0, 0, 0, 0, 0, 0, 240>>
FixtureHash ==
    <<136, 78, 218, 217, 206, 111, 162, 68, 13, 138, 84, 204, 18, 52, 144, 235,
      150, 210, 118, 132, 121, 212, 159, 249, 199, 54, 97, 37, 169, 66, 67, 100>>
FixtureExpected ==
    <<38, 179, 41, 63, 0, 0, 0, 0, 0, 0, 0, 0, 0, 0, 0, 0,
      175, 243, 69, 79, 206, 94, 219, 200, 204, 168, 105, 124, 21, 51, 22, 119,
      230, 235, 204, 204, 0, 0, 0, 0, 0, 0, 0, 0, 0, 0, 0, 0,
      0, 0, 0, 0, 0, 0, 0, 0, 0, 0, 0, 0, 0, 0, 0, 0,
      0, 0, 0, 240, 136, 78, 218, 217, 206, 111, 162, 68, 13, 138, 84, 204,
      18, 52, 144, 235, 150, 210, 118, 132, 121, 212, 159, 249, 199, 54, 97, 37,
      169, 66, 67, 100>>

Zeros(n) == [i \in 1..n |-> 0]
SomeHash(h) == [some |-> TRUE, v |-> h]

(***************************************************************************)
(* home.events().deposit().parse_log (line 28): Deposit(address,uint256)   *)
(* has no indexed parameter, so the log must carry the event's topic and   *)
(* nothing else, and its data the two 32-byte words.  The address is the   *)
(* last 20 bytes of the first word, the value the second word.             *)
(***************************************************************************)
ParseLog(topics, data) ==
    IF topics = <<DepositTopic>> /\ Len(data) >= 64
    THEN [res |-> "Ok", recipient |-> SubSeq(data, 13, 32), value |-> SubSeq(data, 33, 64)]
    ELSE [res |-> "Err", recipient |-> <<>>, value |-> <<>>]

(***************************************************************************)
(* foreign.functions().deposit().input (line 30): the selector, then the   *)
(* three arguments as 32-byte words in the order they are passed, the      *)
(* address left-padded with zeros.                                         *)
(***************************************************************************)
DepositInput(recipient, value, hash) ==
    DepositSelector \o Zeros(32 - Len(recipient)) \o recipient \o value \o hash

(***************************************************************************)
(* Lines 23-32 on bytes: parse_log first (its error returns), then the     *)
(* expect on the transaction hash (panics), then the encoding.             *)
(***************************************************************************)
DepositRelayPayloadHashFirst(log) ==
    LET deposit_log == ParseLog(log.topics, log.data) IN
    IF deposit_log.res = "Err" THEN [res |-> "Err", bytes |-> <<>>]
    ELSE IF ~log.transaction_hash.some THEN [res |-> "Panic", bytes |-> <<>>]
    ELSE [res |-> "Ok",
          bytes |-> DepositInput(deposit_log.recipient, log.transaction_hash.v,
                                 deposit_log.value)]

DepositRelayPayloadBytes(log) ==
    LET deposit_log == ParseLog(log.topics, log.data) IN
    IF deposit_log.res = "Err" THEN [res |-> "Err", bytes |-> <<>>]
    ELSE IF ~log.transaction_hash.some THEN [res |-> "Panic", bytes |-> <<>>]
    ELSE [res |-> "Ok",
          bytes |-> DepositInput(deposit_log.recipient, deposit_log.value,
                                 log.transaction_hash.v)]

(***************************************************************************)
(* The logs deposit_relay_payload is applied to: well-formed data for a    *)
(* few recipients and values (one with a non-zero padding of the address   *)
(* word), data that is too short, the right topic, no topic, another       *)
(* event's topic and two topics, with and without a transaction hash.      *)
(***************************************************************************)
OtherTopic ==
    <<221, 242, 82, 173, 27, 226, 200, 155, 105, 194, 176, 104, 252, 55, 141, 170,
      149, 43, 167, 241, 99, 196, 161, 22, 40, 245, 90, 77, 245, 35, 179, 239>>
Recipients == {FixtureRecipient, Zeros(20), [i \in 1..20 |-> 17]}
Values == {FixtureValue, <<255>> \o Zeros(30) \o <<1>>}
LogData ==
    {Zeros(12) \o r \o v : r \in Recipients, v \in Values}
    \cup {[i \in 1..12 |-> 255] \o FixtureRecipient \o FixtureValue}
    \cup {<<>>, FixtureValue}
LogTopics == {<<DepositTopic>>, <<>>, <<OtherTopic>>, <<DepositTopic, DepositTopic>>}
LogHashes == {NoHash, SomeHash(FixtureHash), SomeHash([i \in 1..32 |-> i])}
Logs == [topics : LogTopics, data : LogData, transaction_hash : LogHashes]

InitPayload ==
    /\ InitRelay
    /\ peer = PeerIdle
    /\ plog \in Logs
    /\ pout = NoPayload

ApplyPayload ==
    /\ pout = NoPayload
    /\ pout' = DepositRelayPayloadBytes(plog)
    /\ UNCHANGED <<relayVars, peer, plog>>

NextPayload == ApplyPayload

SpecPayload == InitPayload /\ [][NextPayload]_vars

(***************************************************************************)
(* C11.  Payload layout: whenever deposit_relay_payload gives a payload,   *)
(* it is 100 bytes: the deposit selector, then the recipient (the last 20  *)
(* bytes of the first data word) in a zero-padded word, then the value     *)
(* (the second data word), then the log's transaction hash.                *)
(***************************************************************************)
C11_PayloadLayout ==
    pout.res = "Ok" =>
        /\ Len(pout.bytes) = 100
        /\ SubSeq(pout.bytes, 1, 4) = DepositSelector
        /\ SubSeq(pout.bytes, 5, 16) = Zeros(12)
        /\ SubSeq(pout.bytes, 17, 36) = SubSeq(plog.data, 13, 32)
        /\ SubSeq(pout.bytes, 37, 68) = SubSeq(plog.data, 33, 64)
        /\ SubSeq(pout.bytes, 69, 100) = plog.transaction_hash.v

C11_Witness ==
    /\ plog = [topics |-> <<DepositTopic>>,
               data |-> Zeros(12) \o FixtureRecipient \o FixtureValue,
               transaction_hash |-> SomeHash(FixtureHash)]
    /\ pout = [res |-> "Ok", bytes |-> FixtureExpected]

(***************************************************************************)
(* C12.  Checkpoint once: a poll that returns a checkpoint leaves the      *)
(* state Yield with no value and counts one more checkpoint, the block it  *)
(* returned; a poll that finds the state Yield and pulls no new batch      *)
(* returns no checkpoint and leaves the state Wait; and there are never    *)
(* more checkpoints than batches pulled.                                   *)
(***************************************************************************)
C12_CheckpointOnce ==
    [][/\ (Polled /\ result'.kind = "Item") =>
            (/\ state' = "Yield"
             /\ IsNone(yieldv')
             /\ emitted' = [n |-> emitted.n + 1, last |-> result'.val])
       /\ (Polled /\ state = "Yield" /\ ~Pulled) =>
            (/\ result'.kind # "Item"
             /\ state' = "Wait"
             /\ emitted' = emitted)
       /\ emitted'.n <= logs'.pulls]_vars

C12_Witness ==
    /\ state = "Wait"
    /\ result.kind = "NotReady"
    /\ ~failed
    /\ batch.n = MaxEvents
    /\ logs.pulls = 1
    /\ emitted = [n |-> 1, last |-> batch.to]

(***************************************************************************)
(* The logs of a batch that do not decode, and the first of them.          *)
(***************************************************************************)
HasMalformed(ls) == \E i \in 1..Len(ls) : ls[i] = "malformed"
HasFailing(ls) == \E i \in 1..Len(ls) : ls[i] # "deposit"
FirstFailing(ls) ==
    ls[CHOOSE i \in 1..Len(ls) :
        ls[i] # "deposit" /\ \A j \in 1..(i - 1) : ls[j] = "deposit"]
GateRejects == Gas * GasPrice * batch'.n > Unwrap(foreign_balance)

(***************************************************************************)
(* C13 as stated.  Decode failure: a poll that pulls a batch with a log    *)
(* that does not parse as a Deposit event returns an error, and no         *)
(* transaction of the batch was signed or sent.                            *)
(***************************************************************************)
C13_DecodeErrorReturned ==
    [][(Pulled /\ HasMalformed(batch'.logs)) =>
            (/\ result'.kind = "Err"
             /\ batch'.signed = 0
             /\ calls' = <<>>)]_vars

(***************************************************************************)
(* C13 amended.  Decode failure: a poll that pulls a batch with a log that *)
(* does not decode (it does not parse, or it has no transaction hash) ends *)
(* fatally with nothing signed and nothing sent, no future held and no     *)
(* checkpoint: it returns InsufficientFunds when the gate rejects the      *)
(* batch, else the decode error when the first such log does not parse,    *)
(* and it panics when the first such log has no transaction hash.          *)
(***************************************************************************)
C13_NothingSignedOnBadLog ==
    [][(Pulled /\ HasFailing(batch'.logs)) =>
            (/\ batch'.signed = 0
             /\ calls' = <<>>
             /\ state' = "Wait"
             /\ future' = future
             /\ emitted' = emitted
             /\ IF GateRejects
                THEN result' = Err("InsufficientFunds", TRUE)
                ELSE IF FirstFailing(batch'.logs) = "malformed"
                THEN result' = Err("Decode", TRUE)
                ELSE result' = Panic)]_vars

C13_Witness ==
    /\ batch.logs = <<"deposit", "malformed">>
    /\ result = Err("Decode", TRUE)
    /\ batch.signed = 0
    /\ calls = <<>>
    /\ state = "Wait"

(***************************************************************************)
(* C14.  Snapshot at batch start: the poll that pulls a batch compares the *)
(* balance snapshot of that step with the cost, and every transaction it   *)
(* sends carries the nonce snapshot of that step; a step of the tracker    *)
(* changes no transaction, future, block or state; and a poll in           *)
(* RelayDeposits changes no transaction and, when every call of the batch  *)
(* was accepted, returns the batch's block whatever the snapshots are.     *)
(***************************************************************************)
C14_SnapshotAtBatchStart ==
    [][/\ Pulled =>
            (/\ \A i \in 1..Len(calls') : calls'[i].nonce = foreign_nonce.v
             /\ (result' = Err("InsufficientFunds", TRUE))
                    <=> (Gas * GasPrice * batch'.n > foreign_balance.v))
       /\ ~Polled => (UNCHANGED <<state, future, block, yieldv, batch>>
                      /\ Len(calls') = Len(calls)
                      /\ \A i \in 1..Len(calls) : calls'[i].nonce = calls[i].nonce)
       /\ (Polled /\ state = "RelayDeposits") =>
            (/\ calls' = calls
             /\ batch' = batch
             /\ AllCallsAccepted => result' = Item(block, FALSE))]_vars

C14_Witness ==
    /\ result = Item(batch.to, FALSE)
    /\ batch.n = MaxEvents
    /\ \A i \in 1..Len(calls) : calls[i].nonce = MaxNonce
    /\ IsNone(foreign_nonce)
    /\ IsNone(foreign_balance)

(***************************************************************************)
(* C15.  One submission per event: when a poll pulls a batch of n >= 1     *)
(* logs that all decode, the gate passes and the signer never fails, the   *)
(* state becomes RelayDeposits with a future of exactly n pending          *)
(* elements, the i-th being the submission of the i-th log's payload, and  *)
(* with the batch's upper block.                                           *)
(***************************************************************************)
C15_OneSubmissionPerEvent ==
    [][(/\ Pulled
        /\ batch'.n >= 1
        /\ ~HasFailing(batch'.logs)
        /\ ~GateRejects
        /\ result'.err # "Signer") =>
            (/\ state' = "RelayDeposits"
             /\ block' = batch'.to
             /\ Len(future') = batch'.n
             /\ Len(calls') = batch'.n
             /\ \A i \in 1..batch'.n :
                    /\ calls'[i].ev = i
                    /\ calls'[i].st = "InFlight"
                    /\ future'[i] = "Pending")]_vars

C15_Witness ==
    /\ state = "RelayDeposits"
    /\ result = NotReady(TRUE)
    /\ batch.n = MaxEvents
    /\ batch.to = MaxBlock
    /\ block = MaxBlock
    /\ Len(future) = MaxEvents
    /\ \A i \in 1..MaxEvents : calls[i].ev = i /\ future[i] = "Pending"

(***************************************************************************)
(* C16.  Snapshots are read only: a call of poll, in any state and with    *)
(* any outcome, leaves the balance snapshot and the nonce snapshot as      *)
(* they were.                                                              *)
(***************************************************************************)
C16_PollKeepsSnapshots ==
    [][Polled => (foreign_balance' = foreign_balance /\ foreign_nonce' = foreign_nonce)]_vars

C16_Witness ==
    /\ result = Item(batch.to, FALSE)
    /\ batch.n = MaxEvents
    /\ \A i \in 1..Len(calls) : calls[i].nonce = MaxNonce
    /\ foreign_nonce = Some(MaxNonce)
    /\ foreign_balance = Some(MaxBalance)

(***************************************************************************)
(* Two relays on one account.  The second DepositRelay is created with the *)
(* same foreign_balance and foreign_nonce (lines 61-62 clone the Arcs) and *)
(* runs the same poll; of it the model keeps the state and the calls it    *)
(* has sent.  Its log stream delivers one batch, of deposit logs, and its  *)
(* calls are accepted.  Its state "Yield" is Yield(None): the value is     *)
(* taken in the call of poll that sets it.                                 *)
(***************************************************************************)
PeerAtWait == peer.state = "Wait" \/ peer.state = "Yield"

PeerPollRelay ==
    /\ PeerAtWait
    /\ ~peer.pulled
    /\ SnapshotsKnown(foreign_balance, foreign_nonce)
    /\ \E n \in 1..MaxEvents :
        /\ ~InsufficientFunds(BalanceRequired(n), Unwrap(foreign_balance))
        /\ peer' = [state |-> "RelayDeposits",
                    calls |-> IssuedCalls(n, 0, Unwrap(foreign_nonce)),
                    pulled |-> TRUE]
    /\ UNCHANGED <<relayVars, plog, pout>>

PeerRpcAnswer ==
    /\ \E i \in 1..Len(peer.calls) :
        /\ peer.calls[i].st = "InFlight"
        /\ peer' = [peer EXCEPT !.calls[i].st = "Ok"]
    /\ UNCHANGED <<relayVars, plog, pout>>

(***************************************************************************)
(* Lines 133-141: the joined future is ready, the Yield arm takes the      *)
(* block and returns it (line 140) before line 143: the state stays        *)
(* Yield(None).                                                            *)
(***************************************************************************)
PeerPollRelaying ==
    /\ peer.state = "RelayDeposits"
    /\ TryReady(JoinAll(peer.calls), peer.calls).res = "Ready"
    /\ peer' = [peer EXCEPT !.state = "Yield", !.calls = <<>>]
    /\ UNCHANGED <<relayVars, plog, pout>>

(***************************************************************************)
(* Lines 138-139 and 85-95: the next poll finds Yield(None), sets the      *)
(* state to Wait and returns from the Wait arm with nothing pulled (a      *)
(* snapshot is unknown, or the log stream has no item or fails).           *)
(***************************************************************************)
PeerPollYielded ==
    /\ peer.state = "Yield"
    /\ peer' = [peer EXCEPT !.state = "Wait"]
    /\ UNCHANGED <<relayVars, plog, pout>>

NextTwo ==
    \/ Next
    \/ PeerPollRelay
    \/ PeerRpcAnswer
    \/ PeerPollRelaying
    \/ PeerPollYielded

SpecTwo == Init /\ [][NextTwo]_vars

(***************************************************************************)
(* C17.  Nonces are not shared: no transaction in flight from one relay    *)
(* has the nonce of a transaction in flight from the other, and the        *)
(* transactions a relay sends for a batch have none of the nonces of the   *)
(* transactions it sent for the batch before.                              *)
(***************************************************************************)
C17_NoncesNotShared ==
    [][/\ \A i \in 1..Len(calls'), j \in 1..Len(peer'.calls) :
            (calls'[i].st = "InFlight" /\ peer'.calls[j].st = "InFlight")
                => calls'[i].nonce # peer'.calls[j].nonce
       /\ Pulled => \A i \in 1..Len(calls), j \in 1..Len(calls') :
                        calls[i].nonce # calls'[j].nonce]_vars

(***************************************************************************)
(* The relay under fair polling in a helpful environment: the tracker      *)
(* populates each snapshot and leaves it populated, the balance it writes  *)
(* covers the cost of any batch, the endpoint accepts every call, and the  *)
(* log stream hands over a batch it has when it is polled often enough.    *)
(***************************************************************************)
LiveBalanceValues == {Some(BalanceRequired(MaxEvents))}
LiveNonceValues == {Some(MaxNonce)}

LiveSetBalance ==
    /\ IsNone(foreign_balance)
    /\ \E b \in LiveBalanceValues : foreign_balance' = b
    /\ UNCHANGED aside
    /\ UNCHANGED <<state, future, block, yieldv, foreign_nonce, logs, calls, batch,
                   result, emitted, failed, tick>>

LiveSetNonce ==
    /\ IsNone(foreign_nonce)
    /\ \E x \in LiveNonceValues : foreign_nonce' = x
    /\ UNCHANGED aside
    /\ UNCHANGED <<state, future, block, yieldv, foreign_balance, logs, calls, batch,
                   result, emitted, failed, tick>>

RpcAnswerOk ==
    /\ \E i \in 1..Len(future) :
        /\ calls[i].st = "InFlight"
        /\ calls' = [calls EXCEPT ![i].st = "Ok"]
    /\ UNCHANGED aside
    /\ UNCHANGED <<state, future, block, yieldv, foreign_balance, foreign_nonce, logs,
                   batch, result, emitted, failed, tick>>

LivePull ==
    \/ PollDecodeError
    \/ PollPanic
    \/ PollSignerError
    \/ PollRelay

(***************************************************************************)
(* The steps of the environment: the tracker writes before any call        *)
(* exists, the endpoint answers after.                                     *)
(***************************************************************************)
LiveEnvironment == LiveSetBalance \/ LiveSetNonce \/ RpcAnswerOk

NextLive ==
    \/ PollSnapshotUnknown
    \/ PollLogsNotReady
    \/ PollLogsError
    \/ LivePull
    \/ PollRelaying
    \/ LiveEnvironment

(***************************************************************************)
(* Fair polling: the relay is not left unpolled in RelayDeposits, nor at   *)
(* the Wait arm while the log stream has a batch for it (PollRelay is      *)
(* enabled exactly when some pull is: the empty batch passes every check;  *)
(* which batch a pull gets stays the log stream's choice).  And the        *)
(* environment eventually populates the snapshots and answers the calls.   *)
(***************************************************************************)
Fairness ==
    /\ WF_vars(PollRelay)
    /\ WF_vars(PollRelaying)
    /\ WF_vars(LiveEnvironment)

SpecLive == Init /\ [][NextLive]_vars /\ Fairness

LostBatchStaysLost ==
    /\ (Pulled /\ result'.kind \in {"Err", "Panic"}) => state' = "Wait"
    /\ (~Pulled /\ state # "RelayDeposits") =>
            (state' # "RelayDeposits" /\ ~(Polled /\ result'.kind = "Item"))

====
